---- MODULE Spec2Model ----
(***************************************************************************)
(* Model of internal/store/verticalpodautoscaler.go of kube-state-metrics: *)
(* the VerticalPodAutoscaler metric family generators, the resource list   *)
(* to metric conversion, the default label wrapper and the list/watch      *)
(* factory.                                                                *)
(*                                                                         *)
(* Representation.  A Go string that the code inspects character by        *)
(* character (a resource name, an annotation key) is a sequence of one     *)
(* character strings; every other string is a TLA+ string.  A Go pointer   *)
(* is either Nil or a record.  A Go slice of structs is a record           *)
(* [isNil, elems].  A float64 value is the exact fraction [num, den].      *)
(***************************************************************************)
EXTENDS Integers, Sequences, FiniteSets, TLC

VARIABLES
    obj,                   \* the object handed to the generators
    allowAnnotationsList,  \* first parameter of vpaMetricFamilies
    allowLabelsList,       \* second parameter of vpaMetricFamilies
    gen,                   \* index of the generator invoked last (0: none yet)
    family,                \* the Family it returned
    repeated,              \* the invocation before that was of the same generator
    prevFamily,            \* if repeated: the Family that earlier invocation returned
    panicked,              \* a generator panicked (the goroutine is gone)
    arrays,                \* heap: backing arrays of []string slices
    sharedLabels,          \* the slice header of the package level default labels
    wpc,                   \* per worker: 0 before f(vpa), then the index of the next Metric to relabel
    wobj,                  \* per worker: the generator it runs and the object it was handed
    wkeys,                 \* per worker: slice headers of its Metrics' LabelKeys
    wvalues,               \* per worker: slice headers of its Metrics' LabelValues
    lwNamespace,           \* namespace the ListerWatcher was built for
    clientCalls,           \* calls received by the backing VPA client
    returned,              \* what ListFunc / WatchFunc returned to their caller
    argContainer,          \* first argument of vpaResourcesToMetrics
    argResources,          \* second argument of vpaResourcesToMetrics
    metrics,               \* the slice vpaResourcesToMetrics returned
    converted              \* vpaResourcesToMetrics has returned

vars == <<obj, allowAnnotationsList, allowLabelsList, gen, family, repeated,
          prevFamily, panicked, arrays, sharedLabels, wpc, wobj, wkeys,
          wvalues, lwNamespace, clientCalls, returned, argContainer,
          argResources, metrics, converted>>

registryVars == <<obj, allowAnnotationsList, allowLabelsList, gen, family,
                  repeated, prevFamily, panicked>>
heapVars == <<arrays, sharedLabels, wpc, wobj, wkeys, wvalues>>
listWatchVars == <<lwNamespace, clientCalls, returned>>
convertVars == <<argContainer, argResources, metrics, converted>>

\* ------------------------------------------------------------------------
\* Bounds
\* ------------------------------------------------------------------------
MaxContainers == 1
NumWorkers == 2
MaxCalls == 2
MaxResources == 3

\* ------------------------------------------------------------------------
\* Strings as character sequences
\* ------------------------------------------------------------------------
Chars == <<"*", "-", ".", "/",
           "0", "1", "2", "3", "4", "5", "6", "7", "8", "9",
           "A", "B", "C", "D", "E", "F", "G", "H", "I", "J", "K", "L", "M",
           "N", "O", "P", "Q", "R", "S", "T", "U", "V", "W", "X", "Y", "Z",
           "_",
           "a", "b", "c", "d", "e", "f", "g", "h", "i", "j", "k", "l", "m",
           "n", "o", "p", "q", "r", "s", "t", "u", "v", "w", "x", "y", "z">>

CharIndex(c) == CHOOSE i \in 1..Len(Chars) : Chars[i] = c

IsDigit(c) == CharIndex(c) \in 5..14
IsLetter(c) == CharIndex(c) \in (15..40) \cup (42..67)
IsLabelChar(c) == IsLetter(c) \/ IsDigit(c) \/ c = "_"

RECURSIVE Concat(_)
Concat(cs) == IF cs = <<>> THEN "" ELSE Head(cs) \o Concat(Tail(cs))

SanitizeAllChars(cs) == [i \in 1..Len(cs) |-> IF IsLabelChar(cs[i]) THEN cs[i] ELSE "_"]

sanitizeLabelNameChars(cs) ==
    LET r == SanitizeAllChars(cs)
    IN  IF r # <<>> /\ ~(IsLetter(r[1]) \/ r[1] = "_") THEN <<"_">> \o r ELSE r

sanitizeLabelName(cs) == Concat(sanitizeLabelNameChars(cs))

RECURSIVE LexLess(_, _)
LexLess(a, b) ==
    IF b = <<>> THEN FALSE
    ELSE IF a = <<>> THEN TRUE
    ELSE IF a[1] = b[1] THEN LexLess(Tail(a), Tail(b))
    ELSE CharIndex(a[1]) < CharIndex(b[1])

\* ------------------------------------------------------------------------
\* Go values
\* ------------------------------------------------------------------------
Nil == [isNil |-> TRUE]
NilSlice == [isNil |-> TRUE, elems |-> <<>>]
EmptySlice == [isNil |-> FALSE, elems |-> <<>>]
SliceOf(s) == [isNil |-> FALSE, elems |-> s]

\* append(ms, xs...) on a slice of structs
AppendSlice(ms, xs) ==
    [isNil |-> ms.isNil /\ xs.elems = <<>>, elems |-> ms.elems \o xs.elems]

Float(n) == [num |-> n, den |-> 1]

\* resource.Quantity, held in thousandths
Quantity(u, m) == [units |-> u, milli |-> m]
MilliValue(val) == val.units * 1000 + val.milli
Value(val) == val.units + (IF val.milli > 0 THEN 1 ELSE 0)

ResourceCPU == <<"c", "p", "u">>
ResourceMemory == <<"m", "e", "m", "o", "r", "y">>
ResourceStorage == <<"s", "t", "o", "r", "a", "g", "e">>
ResourceEphemeralStorage ==
    <<"e", "p", "h", "e", "m", "e", "r", "a", "l", "-", "s", "t", "o", "r", "a", "g", "e">>
ResourceGPU == <<"n", "v", "i", "d", "i", "a", ".", "c", "o", "m", "/", "g", "p", "u">>

UnitCore == "core"
UnitByte == "byte"

\* every order in which a Go range statement may visit the keys of a map
Orders(S) ==
    {p \in [1..Cardinality(S) -> S] : \A i, j \in 1..Cardinality(S) : i # j => p[i] # p[j]}

\* ------------------------------------------------------------------------
\* Label composer (internal/store/utils.go), after its specification
\* ------------------------------------------------------------------------
Star == <<"*">>

KeyLess(a, b) ==
    \/ LexLess(sanitizeLabelNameChars(a), sanitizeLabelNameChars(b))
    \/ sanitizeLabelNameChars(a) = sanitizeLabelNameChars(b) /\ LexLess(a, b)

RECURSIVE FirstSeenWins(_, _)
FirstSeenWins(ks, seen) ==
    IF ks = <<>> THEN <<>>
    ELSE IF sanitizeLabelName(Head(ks)) \in seen
         THEN FirstSeenWins(Tail(ks), seen)
         ELSE <<Head(ks)>> \o FirstSeenWins(Tail(ks), seen \cup {sanitizeLabelName(Head(ks))})

createPrometheusLabelKeysValues(prefix, kubeData, allowList) ==
    LET all == SortSeq(CHOOSE p \in Orders(DOMAIN kubeData) : TRUE, KeyLess)
        listed == SelectSeq(allowList, LAMBDA k : k \in DOMAIN kubeData)
        chosen == IF allowList # <<>> /\ allowList[1] = Star THEN all ELSE listed
        kept == FirstSeenWins(chosen, {})
    IN  [keys   |-> [i \in 1..Len(kept) |-> prefix \o "_" \o sanitizeLabelName(kept[i])],
         values |-> [i \in 1..Len(kept) |-> kubeData[kept[i]]]]

\* ------------------------------------------------------------------------
\* vpaResourcesToMetrics
\* ------------------------------------------------------------------------
Metric(keys, values, v) == [LabelKeys |-> keys, LabelValues |-> values, Value |-> v]

ResourceLabelKeys == <<"container", "resource", "unit">>

\* variant: the division by 1000 is forgotten
CoreValueAsMilli(val) == [num |-> MilliValue(val), den |-> 1]

\* float64(val.MilliValue()) / 1000
CoreValue(val) == [num |-> MilliValue(val), den |-> 1000]

\* float64(val.Value())
ByteValue(val) == Float(Value(val))

\* variant: the storage case lost its fallthrough
ByteResourcesNoStorage == {ResourceEphemeralStorage, ResourceMemory}

\* the case labels of the switch that fall through to the byte branch
ByteResources == {ResourceStorage, ResourceEphemeralStorage, ResourceMemory}

\* one pass of the switch: the Metrics appended for one map entry
ResourceCase(containerName, resourceName, val) ==
    IF resourceName = ResourceCPU
    THEN <<Metric(<<>>, <<containerName, sanitizeLabelName(resourceName), UnitCore>>, CoreValue(val))>>
    ELSE IF resourceName \in ByteResources
    THEN <<Metric(<<>>, <<containerName, sanitizeLabelName(resourceName), UnitByte>>, ByteValue(val))>>
    ELSE <<>>

RECURSIVE RangeResources(_, _, _)
RangeResources(containerName, resources, order) ==
    IF order = <<>> THEN <<>>
    ELSE ResourceCase(containerName, Head(order), resources[Head(order)])
         \o RangeResources(containerName, resources, Tail(order))

\* the result for one iteration order of the map
vpaResourcesToMetricsIn(containerName, resources, order) ==
    LET ms == RangeResources(containerName, resources, order)
    IN  SliceOf([i \in 1..Len(ms) |-> [ms[i] EXCEPT !.LabelKeys = ResourceLabelKeys]])

\* the results the runtime's map iteration can produce
vpaResourcesToMetrics(containerName, resources) ==
    {vpaResourcesToMetricsIn(containerName, resources.entries, order) :
        order \in Orders(DOMAIN resources.entries)}

\* ------------------------------------------------------------------------
\* vpaMetricFamilies: the nine generator bodies (before wrapping)
\* ------------------------------------------------------------------------
Family(ms) == [Metrics |-> ms]

\* a run time panic (failed type assertion, nil pointer dereference)
Panic == [panic |-> TRUE]

\* variant: two modes listed in the other order
UpdateModesReordered == <<"Off", "Initial", "Auto", "Recreate">>

UpdateModes == <<"Off", "Initial", "Recreate", "Auto">>

annotationsFamily(a, allowList) ==
    LET kv == createPrometheusLabelKeysValues("annotation", a.Annotations, allowList)
    IN  Family(SliceOf(<<Metric(kv.keys, kv.values, Float(1))>>))

labelsFamily(a, allowList) ==
    LET kv == createPrometheusLabelKeysValues("label", a.Labels, allowList)
    IN  Family(SliceOf(<<Metric(kv.keys, kv.values, Float(1))>>))

\* variant: only the outer pointer is checked
UpdateModeUnsetOuterOnly(a) == a.Spec.UpdatePolicy = Nil

UpdateModeUnset(a) ==
    a.Spec.UpdatePolicy = Nil \/ a.Spec.UpdatePolicy.UpdateMode = Nil

updateModeFamily(a) ==
    IF UpdateModeUnset(a) THEN Family(EmptySlice)
    ELSE IF a.Spec.UpdatePolicy = Nil \/ a.Spec.UpdatePolicy.UpdateMode = Nil
    THEN Panic  \* *a.Spec.UpdatePolicy.UpdateMode through a nil pointer
    ELSE Family(SliceOf([i \in 1..Len(UpdateModes) |->
            Metric(<<"update_mode">>, <<UpdateModes[i]>>,
                   IF a.Spec.UpdatePolicy.UpdateMode.val = UpdateModes[i]
                   THEN Float(1) ELSE Float(0))]))

\* for _, c := range cs { ms = append(ms, vpaResourcesToMetrics(c.ContainerName, c.<field>)...) }
RECURSIVE RangeContainers(_, _, _)
RangeContainers(ms, cs, field) ==
    IF cs = <<>> THEN {ms}
    ELSE UNION {RangeContainers(AppendSlice(ms, r), Tail(cs), field) :
                   r \in vpaResourcesToMetrics(Head(cs).ContainerName, Head(cs)[field])}

ResourcePolicyUnset(a) ==
    a.Spec.ResourcePolicy = Nil \/ a.Spec.ResourcePolicy.ContainerPolicies.isNil

containerPoliciesFamilies(a, field) ==
    IF ResourcePolicyUnset(a) THEN {Family(EmptySlice)}
    ELSE IF a.Spec.ResourcePolicy = Nil
    THEN {Panic}  \* a.Spec.ResourcePolicy.ContainerPolicies through a nil pointer
    ELSE {Family(ms) :
            ms \in RangeContainers(EmptySlice, a.Spec.ResourcePolicy.ContainerPolicies.elems, field)}

RecommendationUnset(a) ==
    a.Status.Recommendation = Nil \/ a.Status.Recommendation.ContainerRecommendations.isNil

containerRecommendationsFamilies(a, field) ==
    IF RecommendationUnset(a) THEN {Family(EmptySlice)}
    ELSE IF a.Status.Recommendation = Nil
    THEN {Panic}  \* a.Status.Recommendation.ContainerRecommendations through a nil pointer
    ELSE {Family(ms) :
            ms \in RangeContainers(EmptySlice, a.Status.Recommendation.ContainerRecommendations.elems, field)}

NumGenerators == 9

GeneratorNames ==
    <<"kube_verticalpodautoscaler_annotations",
      "kube_verticalpodautoscaler_labels",
      "kube_verticalpodautoscaler_spec_updatepolicy_updatemode",
      "kube_verticalpodautoscaler_spec_resourcepolicy_container_policies_minallowed",
      "kube_verticalpodautoscaler_spec_resourcepolicy_container_policies_maxallowed",
      "kube_verticalpodautoscaler_status_recommendation_containerrecommendations_lowerbound",
      "kube_verticalpodautoscaler_status_recommendation_containerrecommendations_upperbound",
      "kube_verticalpodautoscaler_status_recommendation_containerrecommendations_target",
      "kube_verticalpodautoscaler_status_recommendation_containerrecommendations_uncappedtarget">>

\* the Families the i-th generator body can return for the VPA a
vpaMetricFamilies(i, a, allowAnnotations, allowLabels) ==
    CASE i = 1 -> {annotationsFamily(a, allowAnnotations)}
      [] i = 2 -> {labelsFamily(a, allowLabels)}
      [] i = 3 -> {updateModeFamily(a)}
      [] i = 4 -> containerPoliciesFamilies(a, "MinAllowed")
      [] i = 5 -> containerPoliciesFamilies(a, "MaxAllowed")
      [] i = 6 -> containerRecommendationsFamilies(a, "LowerBound")
      [] i = 7 -> containerRecommendationsFamilies(a, "UpperBound")
      [] i = 8 -> containerRecommendationsFamilies(a, "Target")
      [] i = 9 -> containerRecommendationsFamilies(a, "UncappedTarget")

\* ------------------------------------------------------------------------
\* wrapVPAFunc
\* ------------------------------------------------------------------------
descVerticalPodAutoscalerLabelsDefaultLabels ==
    <<"namespace", "verticalpodautoscaler", "target_api_version", "target_kind", "target_name">>

VPAKind == "VerticalPodAutoscaler"

\* obj.(*autoscaling.VerticalPodAutoscaler) succeeds
IsVPA(o) == o.kind = VPAKind

EmptyTargetRef == [APIVersion |-> "", Kind |-> "", Name |-> ""]

TargetRefOf(vpa) == IF vpa.Spec.TargetRef = Nil THEN EmptyTargetRef ELSE vpa.Spec.TargetRef

\* variant: the namespace value is left out
DefaultLabelValuesNoNamespace(vpa) ==
    LET targetRef == TargetRefOf(vpa)
    IN  <<vpa.Name, targetRef.APIVersion, targetRef.Kind, targetRef.Name>>

DefaultLabelValues(vpa) ==
    LET targetRef == TargetRefOf(vpa)
    IN  <<vpa.Namespace, vpa.Name, targetRef.APIVersion, targetRef.Kind, targetRef.Name>>

\* variant: the default labels are appended after the generator's own
AppendDefaultLabels(vpa, m) ==
    [m EXCEPT !.LabelKeys = m.LabelKeys \o descVerticalPodAutoscalerLabelsDefaultLabels,
              !.LabelValues = m.LabelValues \o DefaultLabelValues(vpa)]

PrependDefaultLabels(vpa, m) ==
    [m EXCEPT !.LabelKeys = descVerticalPodAutoscalerLabelsDefaultLabels \o m.LabelKeys,
              !.LabelValues = DefaultLabelValues(vpa) \o m.LabelValues]

WrapFamily(vpa, metricFamily) ==
    Family([metricFamily.Metrics EXCEPT !.elems =
              [k \in 1..Len(metricFamily.Metrics.elems) |->
                  PrependDefaultLabels(vpa, metricFamily.Metrics.elems[k])]])

\* the outcomes of calling the i-th wrapped generator on the object o
wrapVPAFunc(i, o, allowAnnotations, allowLabels) ==
    IF ~IsVPA(o) THEN {Panic}
    ELSE {IF f = Panic THEN Panic ELSE WrapFamily(o, f) :
             f \in vpaMetricFamilies(i, o, allowAnnotations, allowLabels)}

\* ------------------------------------------------------------------------
\* []string slices on the heap: a header [arr, len] over a backing array
\* whose length is the capacity
\* ------------------------------------------------------------------------
SharedArray == <<0, 0>>
NilStrings == [arr |-> <<0, -1>>, len |-> 0]

Cap(heap, s) == IF s.arr \in DOMAIN heap THEN Len(heap[s.arr]) ELSE 0
View(heap, s) == IF s.len = 0 THEN <<>> ELSE SubSeq(heap[s.arr], 1, s.len)

\* the n-th array allocated by worker w
FreshArray(heap, w) == <<w, 1 + Cardinality({id \in DOMAIN heap : id[1] = w})>>

Alloc(heap, id, contents) == [x \in DOMAIN heap \cup {id} |-> IF x = id THEN contents ELSE heap[x]]

\* the built-in append(s, xs...): in place while the capacity lasts, else
\* into a new backing array named id
GoAppend(heap, s, xs, id) ==
    IF s.len + Len(xs) <= Cap(heap, s)
    THEN [heap |-> IF xs = <<>> THEN heap
                   ELSE [heap EXCEPT ![s.arr] =
                           [p \in 1..Len(@) |-> IF p > s.len /\ p <= s.len + Len(xs)
                                                THEN xs[p - s.len] ELSE @[p]]],
          slice |-> [arr |-> s.arr, len |-> s.len + Len(xs)]]
    ELSE [heap |-> Alloc(heap, id, View(heap, s) \o xs),
          slice |-> [arr |-> id, len |-> s.len + Len(xs)]]

\* variant: the package variable was built with spare capacity
DefaultLabelsStorageSpare == descVerticalPodAutoscalerLabelsDefaultLabels \o <<"", "", "">>

\* the backing array of the []string{...} literal of the package variable
DefaultLabelsStorage == descVerticalPodAutoscalerLabelsDefaultLabels

\* ------------------------------------------------------------------------
\* Inputs
\* ------------------------------------------------------------------------
Pair(k, v) == [x \in {k} |-> v]
Pair2(k1, v1, k2, v2) == [x \in {k1, k2} |-> IF x = k1 THEN v1 ELSE v2]

KeyDotted == <<"a", ".", "b">>
KeyDashed == <<"a", "-", "b">>
KeyDigit == <<"1", "x">>

\* (annotations, allow-list) pairs; the colliding keys a.b and a-b are only
\* combined with an explicit allow-list, which fixes which one is seen first
AnnotationInputs ==
    ({<<>>, Pair2(KeyDotted, "1", KeyDigit, "2")}
        \X {<<>>, <<Star>>, <<KeyDigit, KeyDotted>>})
    \cup {<<Pair2(KeyDotted, "1", KeyDashed, "2"), <<KeyDashed, KeyDotted>>>>}

LabelInputs == {Pair(<<"a", "p", "p">>, "web")} \X {<<>>, <<Star>>}

TargetRefs == {Nil, [APIVersion |-> "apps/v1", Kind |-> "Deployment", Name |-> "web"]}

UpdatePolicies ==
    {Nil, [UpdateMode |-> Nil]}
    \cup {[UpdateMode |-> [val |-> m]] : m \in {"Off", "Initial", "Recreate", "Auto", "Unknown"}}

ResourceList(m) == [isNil |-> FALSE, entries |-> m]
NilResourceList == [isNil |-> TRUE, entries |-> <<>>]

CpuAndMemory == ResourceList(Pair2(ResourceCPU, Quantity(0, 500), ResourceMemory, Quantity(134217728, 0)))
GpuAndEphemeral == ResourceList(Pair2(ResourceGPU, Quantity(1, 0), ResourceEphemeralStorage, Quantity(1, 500)))
StorageAndCpu == ResourceList(Pair2(ResourceStorage, Quantity(1073741824, 0), ResourceCPU, Quantity(2, 0)))
CpuOnly == ResourceList(Pair(ResourceCPU, Quantity(0, 250)))
MemoryOnly == ResourceList(Pair(ResourceMemory, Quantity(134217728, 0)))

PolicyResourceLists == {NilResourceList, ResourceList(<<>>), CpuAndMemory, GpuAndEphemeral}
RecommendationResourceLists == {CpuAndMemory, StorageAndCpu}

ContainerNames == <<"app", "sidecar", "init", "proxy">>

ContainerPolicySeqs ==
    UNION {{[i \in 1..n |-> [ContainerName |-> ContainerNames[i],
                             MinAllowed |-> l[i][1], MaxAllowed |-> l[i][2]]] :
              l \in [1..n -> PolicyResourceLists \X PolicyResourceLists]} :
           n \in 0..MaxContainers}

ResourcePolicies ==
    {Nil, [ContainerPolicies |-> NilSlice]}
    \cup {[ContainerPolicies |-> SliceOf(cs)] : cs \in ContainerPolicySeqs}

ContainerRecommendationSeqs ==
    UNION {{[i \in 1..n |-> [ContainerName |-> ContainerNames[i],
                             LowerBound |-> l[i][1], UpperBound |-> l[i][2],
                             Target |-> l[i][3], UncappedTarget |-> l[i][4]]] :
              l \in [1..n -> RecommendationResourceLists \X RecommendationResourceLists
                              \X RecommendationResourceLists \X RecommendationResourceLists]} :
           n \in 0..MaxContainers}

Recommendations ==
    {Nil, [ContainerRecommendations |-> NilSlice]}
    \cup {[ContainerRecommendations |-> SliceOf(cs)] : cs \in ContainerRecommendationSeqs}

VPA(ann, lab, ref, up, rp, rec) ==
    [kind |-> VPAKind, Namespace |-> "ns1", Name |-> "vpa1",
     Annotations |-> ann, Labels |-> lab,
     Spec |-> [TargetRef |-> ref, UpdatePolicy |-> up, ResourcePolicy |-> rp],
     Status |-> [Recommendation |-> rec]]

BaseAnnotations == Pair2(KeyDotted, "1", KeyDigit, "2")
BaseLabels == Pair(<<"a", "p", "p">>, "web")
BaseTargetRef == [APIVersion |-> "apps/v1", Kind |-> "Deployment", Name |-> "web"]
BaseUpdatePolicy == [UpdateMode |-> [val |-> "Auto"]]
BaseResourcePolicy ==
    [ContainerPolicies |-> SliceOf(<<[ContainerName |-> "app",
                                      MinAllowed |-> CpuOnly, MaxAllowed |-> GpuAndEphemeral]>>)]
BaseRecommendation ==
    [ContainerRecommendations |-> SliceOf(<<[ContainerName |-> "app",
                                             LowerBound |-> CpuOnly, UpperBound |-> MemoryOnly,
                                             Target |-> GpuAndEphemeral,
                                             UncappedTarget |-> NilResourceList]>>)]

\* a Pod that reached the VPA store
OtherObject == [kind |-> "Pod", Namespace |-> "ns1", Name |-> "pod1"]

\* (object, allowAnnotationsList, allowLabelsList): each group of fields is
\* varied over its whole input set while the others keep their base value
RegistryInputs ==
    {<<VPA(a[1], l[1], ref, up, BaseResourcePolicy, BaseRecommendation), a[2], l[2]>> :
        a \in AnnotationInputs, l \in LabelInputs, ref \in TargetRefs, up \in UpdatePolicies}
    \cup {<<VPA(BaseAnnotations, BaseLabels, BaseTargetRef, BaseUpdatePolicy, rp, BaseRecommendation),
            <<Star>>, <<Star>>>> : rp \in ResourcePolicies}
    \cup {<<VPA(BaseAnnotations, BaseLabels, BaseTargetRef, BaseUpdatePolicy, BaseResourcePolicy, rec),
            <<Star>>, <<Star>>>> : rec \in Recommendations}
    \cup {<<VPA(BaseAnnotations, BaseLabels, BaseTargetRef, Nil, Nil, Nil), <<Star>>, <<Star>>>>}
    \cup {<<OtherObject, <<Star>>, <<Star>>>>}

\* ------------------------------------------------------------------------
\* The generator registry: one wrapped generator is invoked per step
\* ------------------------------------------------------------------------
NoFamily == Family(NilSlice)

HeapIdle ==
    /\ arrays = <<>>
    /\ sharedLabels = NilStrings
    /\ wpc = <<>>
    /\ wobj = <<>>
    /\ wkeys = <<>>
    /\ wvalues = <<>>

ListWatchIdle ==
    /\ lwNamespace = ""
    /\ clientCalls = <<>>
    /\ returned = <<>>

ConvertIdle ==
    /\ argContainer = ""
    /\ argResources = NilResourceList
    /\ metrics = NilSlice
    /\ converted = FALSE

RegistryIdle ==
    /\ obj = Nil
    /\ allowAnnotationsList = <<>>
    /\ allowLabelsList = <<>>
    /\ gen = 0
    /\ family = NoFamily
    /\ repeated = FALSE
    /\ prevFamily = NoFamily
    /\ panicked = FALSE

Init ==
    /\ \E in \in RegistryInputs :
          /\ obj = in[1]
          /\ allowAnnotationsList = in[2]
          /\ allowLabelsList = in[3]
    /\ gen = 0
    /\ family = NoFamily
    /\ repeated = FALSE
    /\ prevFamily = NoFamily
    /\ panicked = FALSE
    /\ HeapIdle
    /\ ListWatchIdle
    /\ ConvertIdle

\* GenerateFunc of the i-th FamilyGenerator is called with obj
Generate(i) ==
    /\ ~panicked
    /\ \E r \in wrapVPAFunc(i, obj, allowAnnotationsList, allowLabelsList) :
          /\ gen' = i
          /\ repeated' = (gen = i)
          /\ prevFamily' = IF gen = i THEN family ELSE NoFamily
          /\ IF r = Panic
             THEN panicked' = TRUE /\ family' = NoFamily
             ELSE panicked' = FALSE /\ family' = r
    /\ UNCHANGED <<obj, allowAnnotationsList, allowLabelsList>>
    /\ UNCHANGED heapVars
    /\ UNCHANGED listWatchVars
    /\ UNCHANGED convertVars

Next == \E i \in 1..NumGenerators : Generate(i)

Spec == Init /\ [][Next]_vars

\* ------------------------------------------------------------------------
\* vpaResourcesToMetrics on its own
\* ------------------------------------------------------------------------
ResourceNames ==
    {ResourceCPU, ResourceMemory, ResourceStorage, ResourceEphemeralStorage, ResourceGPU}

QuantitiesOf(name) ==
    IF name \in {ResourceCPU, ResourceGPU}
    THEN {Quantity(0, 500), Quantity(2, 0)}
    ELSE {Quantity(134217728, 0), Quantity(1, 500)}

ConvertInputs ==
    {NilResourceList}
    \cup UNION {{ResourceList(m) : m \in {f \in [S -> UNION {QuantitiesOf(n) : n \in S}] :
                                            \A n \in S : f[n] \in QuantitiesOf(n)}} :
                S \in {T \in SUBSET ResourceNames : Cardinality(T) <= MaxResources}}

InitConvert ==
    /\ argContainer \in {"app", "sidecar"}
    /\ argResources \in ConvertInputs
    /\ metrics = NilSlice
    /\ converted = FALSE
    /\ RegistryIdle
    /\ HeapIdle
    /\ ListWatchIdle

Convert ==
    /\ \E ms \in vpaResourcesToMetrics(argContainer, argResources) : metrics' = ms
    /\ converted' = TRUE
    /\ UNCHANGED <<argContainer, argResources>>
    /\ UNCHANGED registryVars
    /\ UNCHANGED heapVars
    /\ UNCHANGED listWatchVars

NextConvert == Convert

SpecConvert == InitConvert /\ [][NextConvert]_vars

\* ------------------------------------------------------------------------
\* Concurrent invocations of wrapped generators over the shared default labels
\* ------------------------------------------------------------------------
Workers == 1..NumWorkers

WorkerObject ==
    VPA(BaseAnnotations, BaseLabels, BaseTargetRef, BaseUpdatePolicy,
        [ContainerPolicies |-> SliceOf(<<[ContainerName |-> "app",
                                          MinAllowed |-> CpuAndMemory, MaxAllowed |-> CpuOnly]>>)],
        BaseRecommendation)

\* (generator, object, allowAnnotationsList)
WorkerInputs ==
    {[gen |-> 1, obj |-> WorkerObject, allow |-> <<>>],
     [gen |-> 1, obj |-> [WorkerObject EXCEPT !.Name = "vpa2"], allow |-> <<Star>>],
     [gen |-> 3, obj |-> WorkerObject, allow |-> <<>>],
     [gen |-> 4, obj |-> [WorkerObject EXCEPT !.Spec.TargetRef = Nil], allow |-> <<>>]}

InitConcurrent ==
    /\ arrays = [id \in {SharedArray} |-> DefaultLabelsStorage]
    /\ sharedLabels = [arr |-> SharedArray, len |-> Len(descVerticalPodAutoscalerLabelsDefaultLabels)]
    /\ wpc = [w \in Workers |-> 0]
    /\ wobj \in [Workers -> WorkerInputs]
    /\ wkeys = [w \in Workers |-> <<>>]
    /\ wvalues = [w \in Workers |-> <<>>]
    /\ RegistryIdle
    /\ ListWatchIdle
    /\ ConvertIdle

\* the heap after the strings of the Metrics ms[j..] were allocated by worker w
RECURSIVE AllocMetrics(_, _, _, _)
AllocMetrics(heap, w, ms, j) ==
    IF j > Len(ms) THEN heap
    ELSE LET hk == IF ms[j].LabelKeys = <<>> THEN heap
                   ELSE Alloc(heap, FreshArray(heap, w), ms[j].LabelKeys)
             hv == IF ms[j].LabelValues = <<>> THEN hk
                   ELSE Alloc(hk, FreshArray(hk, w), ms[j].LabelValues)
         IN  AllocMetrics(hv, w, ms, j + 1)

\* the header of the string slice with contents c that worker w allocated
HeaderOf(heap, w, c, before) ==
    IF c = <<>> THEN NilStrings
    ELSE [arr |-> <<w, before + 1>>, len |-> Len(c)]

RECURSIVE KeyHeaders(_, _, _, _)
KeyHeaders(w, ms, j, before) ==
    IF j > Len(ms) THEN <<>>
    ELSE <<HeaderOf(<<>>, w, ms[j].LabelKeys, before)>>
         \o KeyHeaders(w, ms, j + 1,
                       before + (IF ms[j].LabelKeys = <<>> THEN 0 ELSE 1)
                              + (IF ms[j].LabelValues = <<>> THEN 0 ELSE 1))

RECURSIVE ValueHeaders(_, _, _, _)
ValueHeaders(w, ms, j, before) ==
    IF j > Len(ms) THEN <<>>
    ELSE <<HeaderOf(<<>>, w, ms[j].LabelValues,
                    before + (IF ms[j].LabelKeys = <<>> THEN 0 ELSE 1))>>
         \o ValueHeaders(w, ms, j + 1,
                         before + (IF ms[j].LabelKeys = <<>> THEN 0 ELSE 1)
                                + (IF ms[j].LabelValues = <<>> THEN 0 ELSE 1))

\* metricFamily := f(vpa): the generator body builds its Metrics
CallGenerator(w) ==
    /\ wpc[w] = 0
    /\ \E f \in vpaMetricFamilies(wobj[w].gen, wobj[w].obj, wobj[w].allow, <<>>) :
          LET ms == f.Metrics.elems
          IN  /\ arrays' = AllocMetrics(arrays, w, ms, 1)
              /\ wkeys' = [wkeys EXCEPT ![w] = KeyHeaders(w, ms, 1, 0)]
              /\ wvalues' = [wvalues EXCEPT ![w] = ValueHeaders(w, ms, 1, 0)]
    /\ wpc' = [wpc EXCEPT ![w] = 1]
    /\ UNCHANGED <<sharedLabels, wobj>>
    /\ UNCHANGED registryVars
    /\ UNCHANGED listWatchVars
    /\ UNCHANGED convertVars

\* one iteration of: for _, m := range metricFamily.Metrics { ... }
PrependLabels(w) ==
    /\ wpc[w] >= 1
    /\ wpc[w] <= Len(wkeys[w])
    /\ LET j == wpc[w]
           k == GoAppend(arrays, sharedLabels, View(arrays, wkeys[w][j]), FreshArray(arrays, w))
           litId == FreshArray(k.heap, w)
           lit == Alloc(k.heap, litId, DefaultLabelValues(wobj[w].obj))
           v == GoAppend(lit, [arr |-> litId, len |-> 5], View(arrays, wvalues[w][j]),
                         FreshArray(lit, w))
       IN  /\ arrays' = v.heap
           /\ wkeys' = [wkeys EXCEPT ![w][j] = k.slice]
           /\ wvalues' = [wvalues EXCEPT ![w][j] = v.slice]
    /\ wpc' = [wpc EXCEPT ![w] = @ + 1]
    /\ UNCHANGED <<sharedLabels, wobj>>
    /\ UNCHANGED registryVars
    /\ UNCHANGED listWatchVars
    /\ UNCHANGED convertVars

NextConcurrent == \E w \in Workers : CallGenerator(w) \/ PrependLabels(w)

SpecConcurrent == InitConcurrent /\ [][NextConcurrent]_vars

\* ------------------------------------------------------------------------
\* createVPAListWatchFunc
\* ------------------------------------------------------------------------
Namespaces == {"", "ns1", "ns2"}

ListOptionsSet == {[ResourceVersion |-> "", LabelSelector |-> ""],
                   [ResourceVersion |-> "42", LabelSelector |-> "app=web"]}

\* what the backing client may answer
ListResponses == {[value |-> "list@43", err |-> ""],
                  [value |-> "", err |-> "timeout"],
                  [value |-> "", err |-> "410 Gone"]}
WatchResponses == {[value |-> "stream", err |-> ""],
                   [value |-> "", err |-> "timeout"],
                   [value |-> "", err |-> "410 Gone"]}

ClientCall(verb, ns, opts, resp) ==
    [verb |-> verb, namespace |-> ns, opts |-> opts, response |-> resp]

\* variant: a failed List is retried once
ListFuncCallsRetry(ns, opts, resp) ==
    IF resp.err # ""
    THEN <<ClientCall("List", ns, opts, resp), ClientCall("List", ns, opts, resp)>>
    ELSE <<ClientCall("List", ns, opts, resp)>>

\* the calls ListFunc makes on vpaClient.AutoscalingV1beta2()
ListFuncCalls(ns, opts, resp) == <<ClientCall("List", ns, opts, resp)>>

\* the calls WatchFunc makes on vpaClient.AutoscalingV1beta2()
WatchFuncCalls(ns, opts, resp) == <<ClientCall("Watch", ns, opts, resp)>>

InitListWatch ==
    /\ lwNamespace \in Namespaces
    /\ clientCalls = <<>>
    /\ returned = <<>>
    /\ RegistryIdle
    /\ HeapIdle
    /\ ConvertIdle

ListFunc(opts) ==
    /\ Len(returned) < MaxCalls
    /\ \E resp \in ListResponses :
          LET cs == ListFuncCalls(lwNamespace, opts, resp)
          IN  /\ clientCalls' = clientCalls \o cs
              /\ returned' = Append(returned, [func |-> "ListFunc", opts |-> opts,
                                               result |-> cs[Len(cs)].response])
    /\ UNCHANGED lwNamespace
    /\ UNCHANGED registryVars
    /\ UNCHANGED heapVars
    /\ UNCHANGED convertVars

WatchFunc(opts) ==
    /\ Len(returned) < MaxCalls
    /\ \E resp \in WatchResponses :
          LET cs == WatchFuncCalls(lwNamespace, opts, resp)
          IN  /\ clientCalls' = clientCalls \o cs
              /\ returned' = Append(returned, [func |-> "WatchFunc", opts |-> opts,
                                               result |-> cs[Len(cs)].response])
    /\ UNCHANGED lwNamespace
    /\ UNCHANGED registryVars
    /\ UNCHANGED heapVars
    /\ UNCHANGED convertVars

NextListWatch == \E opts \in ListOptionsSet : ListFunc(opts) \/ WatchFunc(opts)

SpecListWatch == InitListWatch /\ [][NextListWatch]_vars

\* ------------------------------------------------------------------------
\* Properties
\* ------------------------------------------------------------------------
Elems == family.Metrics.elems

\* C1: invoking the same generator twice on the same object and allow-lists
\* returns the same Family: same Metrics, same labels, same values, same order.
C1_RepeatedInvocationIdentical ==
    (repeated /\ ~panicked) => family = prevFamily

\* C2: a generator invoked on an object that is not a VerticalPodAutoscaler
\* does not panic and returns a Family without Metrics.
C2_ForeignObjectYieldsEmptyFamily ==
    (gen # 0 /\ ~IsVPA(obj)) => (~panicked /\ Elems = <<>>)

\* C3: every Metric a wrapped generator returns has as many label keys as
\* label values.
C3_LabelParity ==
    \A k \in 1..Len(Elems) : Len(Elems[k].LabelKeys) = Len(Elems[k].LabelValues)

C3_Witness ==
    /\ gen = 1
    /\ Len(Elems) = 1
    /\ Len(Elems[1].LabelKeys) = 7

C4_ExpectedTarget(o) ==
    IF o.Spec.TargetRef = Nil THEN <<"", "", "">>
    ELSE <<o.Spec.TargetRef.APIVersion, o.Spec.TargetRef.Kind, o.Spec.TargetRef.Name>>

\* C4: the first five label keys of every returned Metric are namespace,
\* verticalpodautoscaler, target_api_version, target_kind, target_name and the
\* first five values are the object's namespace, name and target reference
\* (empty strings without one); the generator's own labels follow unchanged,
\* and the number of Metrics does not depend on the target reference.
C4_DefaultLabelsFirst ==
    (gen # 0 /\ ~panicked) =>
        /\ \A k \in 1..Len(Elems) :
              /\ Len(Elems[k].LabelKeys) >= 5
              /\ Len(Elems[k].LabelValues) >= 5
              /\ SubSeq(Elems[k].LabelKeys, 1, 5) =
                    <<"namespace", "verticalpodautoscaler", "target_api_version",
                      "target_kind", "target_name">>
              /\ SubSeq(Elems[k].LabelValues, 1, 5) =
                    <<obj.Namespace, obj.Name>> \o C4_ExpectedTarget(obj)
        /\ \E f \in vpaMetricFamilies(gen, [obj EXCEPT !.Spec.TargetRef = BaseTargetRef],
                                      allowAnnotationsList, allowLabelsList) :
              /\ Len(f.Metrics.elems) = Len(Elems)
              /\ \A k \in 1..Len(Elems) :
                    /\ SubSeq(Elems[k].LabelKeys, 6, Len(Elems[k].LabelKeys))
                          = f.Metrics.elems[k].LabelKeys
                    /\ SubSeq(Elems[k].LabelValues, 6, Len(Elems[k].LabelValues))
                          = f.Metrics.elems[k].LabelValues

C4_Witness ==
    /\ gen = 3
    /\ ~panicked
    /\ obj.Spec.TargetRef = Nil
    /\ Len(Elems) = 4

C6_NoUpdateMode(o) == o.Spec.UpdatePolicy = Nil \/ o.Spec.UpdatePolicy.UpdateMode = Nil
C6_NoPolicies(o) == o.Spec.ResourcePolicy = Nil \/ o.Spec.ResourcePolicy.ContainerPolicies.isNil
C6_NoRecommendations(o) ==
    o.Status.Recommendation = Nil \/ o.Status.Recommendation.ContainerRecommendations.isNil

C6_Unaffected(o) ==
    family \in wrapVPAFunc(gen, o, allowAnnotationsList, allowLabelsList)

\* C6: with an optional substructure unset, the generators that read it
\* return a Family with zero Metrics without panicking, and every other
\* generator returns what it returns when the substructure is set.
C6_UnsetSubstructure ==
    (gen # 0 /\ IsVPA(obj)) =>
        /\ ~panicked
        /\ C6_NoUpdateMode(obj) =>
              IF gen = 3 THEN family.Metrics = EmptySlice
              ELSE C6_Unaffected([obj EXCEPT !.Spec.UpdatePolicy = BaseUpdatePolicy])
        /\ C6_NoPolicies(obj) =>
              IF gen \in {4, 5} THEN family.Metrics = EmptySlice
              ELSE C6_Unaffected([obj EXCEPT !.Spec.ResourcePolicy = BaseResourcePolicy])
        /\ C6_NoRecommendations(obj) =>
              IF gen \in 6..9 THEN family.Metrics = EmptySlice
              ELSE C6_Unaffected([obj EXCEPT !.Status.Recommendation = BaseRecommendation])

C6_Witness ==
    /\ gen = 3
    /\ IsVPA(obj)
    /\ obj.Spec.UpdatePolicy # Nil
    /\ obj.Spec.UpdatePolicy.UpdateMode = Nil
    /\ ~panicked
    /\ Elems = <<>>

C7_Label(n) ==
    CASE n = ResourceCPU -> "cpu"
      [] n = ResourceMemory -> "memory"
      [] n = ResourceStorage -> "storage"
      [] n = ResourceEphemeralStorage -> "ephemeral_storage"
      [] OTHER -> "?"

C7_Milli(q) == q.units * 1000 + q.milli
C7_Integer(q) == IF q.milli = 0 THEN q.units ELSE q.units + 1

\* C7: every Metric of vpaResourcesToMetrics has the label keys container,
\* resource, unit and the values (container name, sanitized resource name,
\* unit); a cpu entry has unit core and a value that times 1000 is its
\* milli-value; a memory, storage or ephemeral-storage entry has unit byte
\* and its integer quantity as value.
C7_UnitsAndValues ==
    converted =>
        \A k \in 1..Len(metrics.elems) :
            LET m == metrics.elems[k]
            IN  /\ m.LabelKeys = <<"container", "resource", "unit">>
                /\ Len(m.LabelValues) = 3
                /\ m.LabelValues[1] = argContainer
                /\ \E n \in DOMAIN argResources.entries :
                      /\ m.LabelValues[2] = C7_Label(n)
                      /\ IF n = ResourceCPU
                         THEN /\ m.LabelValues[3] = "core"
                              /\ m.Value.num * 1000 = C7_Milli(argResources.entries[n]) * m.Value.den
                         ELSE /\ m.LabelValues[3] = "byte"
                              /\ m.Value = [num |-> C7_Integer(argResources.entries[n]), den |-> 1]

C7_Witness ==
    /\ converted
    /\ Len(metrics.elems) = 2
    /\ metrics.elems[1].LabelValues = <<"app", "cpu", "core">>
    /\ metrics.elems[1].Value = [num |-> 500, den |-> 1000]
    /\ metrics.elems[2].LabelValues = <<"app", "memory", "byte">>
    /\ metrics.elems[2].Value = [num |-> 134217728, den |-> 1]

C8_Recognized ==
    {ResourceCPU, ResourceMemory, ResourceStorage, ResourceEphemeralStorage}

\* C8: vpaResourcesToMetrics returns exactly one Metric per entry named cpu,
\* memory, storage or ephemeral-storage and none for any other name, and its
\* result is a non-nil slice even for an empty or nil resource list.
C8_OnePerRecognizedEntry ==
    converted =>
        /\ ~metrics.isNil
        /\ Len(metrics.elems) = Cardinality(DOMAIN argResources.entries \cap C8_Recognized)
        /\ \A n \in DOMAIN argResources.entries \cap C8_Recognized :
              Cardinality({k \in 1..Len(metrics.elems) :
                              metrics.elems[k].LabelValues[2] = C7_Label(n)}) = 1

C8_Witness ==
    /\ converted
    /\ ResourceGPU \in DOMAIN argResources.entries
    /\ ResourceStorage \in DOMAIN argResources.entries
    /\ Len(metrics.elems) = 2

C10_Mode == obj.Spec.UpdatePolicy.UpdateMode.val

\* C10: with the update mode set, the update mode generator returns four
\* Metrics labelled Off, Initial, Recreate, Auto in this order; the one
\* labelled with the object's mode has value 1 and the others 0, so the
\* values sum to 1 for one of the four modes and to 0 for any other string.
C10_UpdateModeStateSet ==
    (gen = 3 /\ ~panicked /\ IsVPA(obj) /\ ~C6_NoUpdateMode(obj)) =>
        /\ Len(Elems) = 4
        /\ [k \in 1..4 |-> Elems[k].LabelValues[6]] = <<"Off", "Initial", "Recreate", "Auto">>
        /\ \A k \in 1..4 :
              /\ Elems[k].LabelKeys[6] = "update_mode"
              /\ Elems[k].Value.den = 1
              /\ Elems[k].Value.num = IF Elems[k].LabelValues[6] = C10_Mode THEN 1 ELSE 0
        /\ Elems[1].Value.num + Elems[2].Value.num + Elems[3].Value.num + Elems[4].Value.num
              = IF C10_Mode \in {"Off", "Initial", "Recreate", "Auto"} THEN 1 ELSE 0

C10_Witness ==
    /\ gen = 3
    /\ ~panicked
    /\ IsVPA(obj)
    /\ ~C6_NoUpdateMode(obj)
    /\ C10_Mode = "Unknown"
    /\ Len(Elems) = 4

C5_Labels(heap, ks, vs, w, j) == <<View(heap, ks[w][j]), View(heap, vs[w][j])>>

\* C5: under any interleaving of wrapped generator invocations the package
\* level default labels and their backing array keep their five elements,
\* and the labels of a Metric are changed only by the invocation that owns
\* it, and by that one only while it relabels that Metric.
C5_NoSharedMutableState ==
    /\ [](/\ sharedLabels.len = 5
          /\ View(arrays, sharedLabels) =
                <<"namespace", "verticalpodautoscaler", "target_api_version",
                  "target_kind", "target_name">>)
    /\ [][/\ arrays'[SharedArray] = arrays[SharedArray]
          /\ \A w \in Workers : \A j \in 1..Len(wkeys[w]) :
                (wpc'[w] = wpc[w] \/ j # wpc[w]) =>
                    C5_Labels(arrays', wkeys', wvalues', w, j)
                        = C5_Labels(arrays, wkeys, wvalues, w, j)]_vars

C5_Witness ==
    \E w1, w2 \in Workers :
        /\ w1 # w2
        /\ wpc[w1] = 2
        /\ wkeys[w1][1].arr = SharedArray
        /\ wpc[w2] = 3
        /\ View(arrays, wkeys[w2][2]) =
              <<"namespace", "verticalpodautoscaler", "target_api_version",
                "target_kind", "target_name", "container", "resource", "unit">>

\* C9: every ListFunc / WatchFunc invocation makes exactly one List / Watch
\* call on the backing client, scoped to the namespace the ListerWatcher was
\* built for and with the caller's options, and returns that call's result
\* or error unchanged; nothing is retried.
C9_OneCallThreadedThrough ==
    /\ Len(clientCalls) = Len(returned)
    /\ \A i \in 1..Len(returned) :
          /\ i <= Len(clientCalls)
          /\ clientCalls[i].verb = (IF returned[i].func = "ListFunc" THEN "List" ELSE "Watch")
          /\ clientCalls[i].namespace = lwNamespace
          /\ clientCalls[i].opts = returned[i].opts
          /\ returned[i].result = clientCalls[i].response

C9_Witness ==
    /\ Len(returned) = 2
    /\ lwNamespace = "ns1"
    /\ returned[1].func = "ListFunc"
    /\ returned[1].result.err = "410 Gone"
    /\ returned[2].func = "WatchFunc"
    /\ returned[2].result.err = ""

====
